---- MODULE Spec2Model ----
(***************************************************************************)
(* Model of the speakright backend: the game turn endpoint                 *)
(* (backend/game_backend.py), the LLM turn orchestrator                    *)
(* (backend/llm_call.py) and the TTS chunk synthesizer                     *)
(* (backend/tts_helpers.py).                                               *)
(*                                                                         *)
(* Text is modelled as a sequence of characters.  A character is a         *)
(* one-element string; a character outside ASCII is written by name        *)
(* ("a_acute" is U+00E1, "comb_acute" is U+0301, "inv_q" is U+00BF, ...).  *)
(* Python's None and "" are both modelled by the empty sequence wherever   *)
(* the code reads the value through `x or default`.                        *)
(***************************************************************************)
EXTENDS Integers, Sequences, FiniteSets, TLC

----------------------------------------------------------------------------
(* Characters *)

LowerLetters == <<"a","b","c","d","e","f","g","h","i","j","k","l","m",
                  "n","o","p","q","r","s","t","u","v","w","x","y","z">>

UpperLetters == <<"A","B","C","D","E","F","G","H","I","J","K","L","M",
                  "N","O","P","Q","R","S","T","U","V","W","X","Y","Z">>

Digits == <<"0","1","2","3","4","5","6","7","8","9">>

Range(s) == {s[i] : i \in 1..Len(s)}

\* Python str.isspace: the characters str.strip() and str.split() cut on and
\* the regular expression \s matches.
WhitespaceChars == {" ", "\t", "\n"}

\* The characters kept by the class [a-zA-Z0-9_\-] of save_wav.
SafeChars == Range(LowerLetters) \cup Range(UpperLetters) \cup Range(Digits) \cup {"_", "-"}

\* The punctuation class [.,;:!?¿¡\-_…\.] of _normalize_for_matching.
PunctuationChars == {".", ",", ";", ":", "!", "?", "inv_q", "inv_e", "-", "_", "ellipsis"}

\* Unicode general category Mn (combining marks).
CombiningMarks == {"comb_acute", "comb_tilde"}

\* Canonical decomposition (NFD) of one character.
Decompose(c) ==
    CASE c = "a_acute" -> <<"a", "comb_acute">>
      [] c = "o_acute" -> <<"o", "comb_acute">>
      [] c = "O_acute" -> <<"O", "comb_acute">>
      [] c = "n_tilde" -> <<"n", "comb_tilde">>
      [] c = "N_tilde" -> <<"N", "comb_tilde">>
      [] OTHER -> <<c>>

\* str.lower() of one character.
LowerChar(c) ==
    IF \E i \in 1..26 : UpperLetters[i] = c
    THEN LowerLetters[CHOOSE i \in 1..26 : UpperLetters[i] = c]
    ELSE CASE c = "O_acute" -> "o_acute"
           [] c = "N_tilde" -> "n_tilde"
           [] OTHER -> c

----------------------------------------------------------------------------
(* Python string operations *)

Min(a, b) == IF a <= b THEN a ELSE b

Max(a, b) == IF a >= b THEN a ELSE b

RECURSIVE Flatten(_)
Flatten(ss) == IF ss = << >> THEN << >> ELSE Head(ss) \o Flatten(Tail(ss))

Lower(s) == [i \in 1..Len(s) |-> LowerChar(s[i])]

IsSpace(c) == c \in WhitespaceChars

RECURSIVE LStrip(_)
LStrip(s) == IF s # << >> /\ IsSpace(Head(s)) THEN LStrip(Tail(s)) ELSE s

RECURSIVE RStrip(_)
RStrip(s) ==
    IF s # << >> /\ IsSpace(s[Len(s)]) THEN RStrip(SubSeq(s, 1, Len(s) - 1)) ELSE s

\* No strip at all.
StripNothing(s) == s

\* str.strip()
Strip(s) == RStrip(LStrip(s))

\* a in b, for strings
IsSubstring(a, b) ==
    \E i \in 0..(Len(b) - Len(a)) : SubSeq(b, i + 1, i + Len(a)) = a

\* s.startswith(p)
StartsWith(s, p) == Len(p) <= Len(s) /\ SubSeq(s, 1, Len(p)) = p

\* len(s.split()): the number of maximal runs of non-whitespace characters.
WordCount(s) ==
    Cardinality({i \in 1..Len(s) :
                   /\ ~IsSpace(s[i])
                   /\ (i = 1 \/ IsSpace(s[i - 1]))})

\* s.split(sep)[0], sep one character
SplitFirst(s, sep) ==
    IF \E i \in 1..Len(s) : s[i] = sep
    THEN SubSeq(s, 1, (CHOOSE i \in 1..Len(s) :
                          s[i] = sep /\ \A j \in 1..(i - 1) : s[j] # sep) - 1)
    ELSE s

\* s.split(sep), sep one character: the list of fields.
RECURSIVE SplitOn(_, _)
SplitOn(s, sep) ==
    IF \E i \in 1..Len(s) : s[i] = sep
    THEN LET first == SplitFirst(s, sep)
         IN <<first>> \o SplitOn(SubSeq(s, Len(first) + 2, Len(s)), sep)
    ELSE <<s>>

\* str(n) for the small naturals of the model.
DigitsOf(n) == IF n < 10 THEN <<Digits[n + 1]>> ELSE <<Digits[(n \div 10) + 1], Digits[(n % 10) + 1]>>

----------------------------------------------------------------------------
(* llm_call.py: text normalizer *)

\* text.replace('ñ', 'n').replace('Ñ', 'N'), then NFD, then the characters
\* whose category is Mn are dropped.
_strip_accents(text) ==
    IF text = << >> THEN << >>
    ELSE LET replaced == [i \in 1..Len(text) |->
                            CASE text[i] = "n_tilde" -> "n"
                              [] text[i] = "N_tilde" -> "N"
                              [] OTHER -> text[i]]
             nfd == Flatten([i \in 1..Len(replaced) |-> Decompose(replaced[i])])
             NotMark(c) == c \notin CombiningMarks
         IN SelectSeq(nfd, NotMark)

\* re.sub(r'\s+', ' ', text): every maximal run of whitespace becomes one space.
RECURSIVE CollapseWhitespace(_)
CollapseWhitespace(s) ==
    IF s = << >> THEN << >>
    ELSE IF IsSpace(Head(s))
         THEN <<" ">> \o CollapseWhitespace(LStrip(s))
         ELSE <<Head(s)>> \o CollapseWhitespace(Tail(s))

\* The normalizer with the whitespace steps ahead of the punctuation step.
_normalize_for_matching_strip_first(text) ==
    IF text = << >> THEN << >>
    ELSE LET NotPunct(c) == c \notin PunctuationChars
         IN Lower(SelectSeq(Strip(CollapseWhitespace(_strip_accents(text))), NotPunct))

_normalize_for_matching(text) ==
    IF text = << >> THEN << >>
    ELSE LET noAccents == _strip_accents(text)
             NotPunct(c) == c \notin PunctuationChars
             noPunct == SelectSeq(noAccents, NotPunct)
         IN Lower(Strip(CollapseWhitespace(noPunct)))

----------------------------------------------------------------------------
(* Cards *)

\* c.get("value") or c.get("display_text") or ""
CardText(c) == IF c.value # << >> THEN c.value ELSE c.display_text

CardIds(cards) == {cards[i].id : i \in 1..Len(cards)}

----------------------------------------------------------------------------
(* game_backend.py: fuzzy_card_detect (defined, never called by api_turn) *)

\* The longest block a[i..i+k-1] = b[j..j+k-1]; among the longest the one
\* that starts earliest in a, and of those the one that starts earliest in b
\* (difflib.SequenceMatcher.find_longest_match).
LongestMatch(a, b) ==
    LET Blocks == {t \in (1..Len(a)) \X (1..Len(b)) \X (1..Min(Len(a), Len(b))) :
                     /\ t[1] + t[3] - 1 <= Len(a)
                     /\ t[2] + t[3] - 1 <= Len(b)
                     /\ SubSeq(a, t[1], t[1] + t[3] - 1) = SubSeq(b, t[2], t[2] + t[3] - 1)}
    IN IF Blocks = {} THEN <<1, 1, 0>>
       ELSE CHOOSE t \in Blocks :
              \A u \in Blocks :
                 \/ t[3] > u[3]
                 \/ (t[3] = u[3] /\ t[1] < u[1])
                 \/ (t[3] = u[3] /\ t[1] = u[1] /\ t[2] <= u[2])

\* The number of matched characters of SequenceMatcher.get_matching_blocks:
\* the longest match, then the same to its left and to its right.
RECURSIVE MatchedChars(_, _)
MatchedChars(a, b) ==
    IF a = << >> \/ b = << >> THEN 0
    ELSE LET m == LongestMatch(a, b)
         IN IF m[3] = 0 THEN 0
            ELSE m[3]
                 + MatchedChars(SubSeq(a, 1, m[1] - 1), SubSeq(b, 1, m[2] - 1))
                 + MatchedChars(SubSeq(a, m[1] + m[3], Len(a)), SubSeq(b, m[2] + m[3], Len(b)))

\* SequenceMatcher(a, b).ratio() > 0.7, with ratio = 2*M / (len(a) + len(b)).
BlockRatioAbove(a, b) ==
    IF Len(a) + Len(b) = 0 THEN TRUE
    ELSE 20 * MatchedChars(a, b) > 7 * (Len(a) + Len(b))

\* Length of the longest common subsequence.
RECURSIVE LcsLen(_, _)
LcsLen(a, b) ==
    IF a = << >> \/ b = << >> THEN 0
    ELSE IF Head(a) = Head(b) THEN 1 + LcsLen(Tail(a), Tail(b))
         ELSE Max(LcsLen(Tail(a), b), LcsLen(a, Tail(b)))

\* rapidfuzz fuzz.partial_ratio(s1, s2) >= threshold: the best fuzz.ratio
\* (100 * 2*LCS / (len1 + len2)) of the shorter string against a window of
\* the longer one: every window of the shorter string's length, and the
\* shorter prefixes and suffixes of the longer string.
PartialRatioReaches(s1, s2, threshold) ==
    LET short == IF Len(s1) <= Len(s2) THEN s1 ELSE s2
        long == IF Len(s1) <= Len(s2) THEN s2 ELSE s1
        n == Len(short)
        Windows == {SubSeq(long, i, i + n - 1) : i \in 1..(Len(long) - n + 1)}
                     \cup {SubSeq(long, 1, k) : k \in 1..Min(n, Len(long))}
                     \cup {SubSeq(long, Len(long) - k + 1, Len(long)) : k \in 1..Min(n, Len(long))}
    IN IF short = << >> THEN long = << >> \/ threshold <= 0
       ELSE \E w \in Windows :
              200 * LcsLen(short, w) >= threshold * (n + Len(w))

\* threshold: int = 75
FuzzyThreshold == 75

\* The fuzzy branch of fuzzy_card_detect: fuzz.partial_ratio >= threshold
\* when rapidfuzz was imported (hasFuzz), else SequenceMatcher ratio > 0.7.
FuzzyHit(target, lower, hasFuzz) ==
    IF hasFuzz
    THEN PartialRatioReaches(target, lower, FuzzyThreshold)
    ELSE BlockRatioAbove(target, lower)

\* fuzzy_card_detect(transcript, cards): the set of ids (list(set(used))).
fuzzy_card_detect(transcript, cards, hasFuzz) ==
    LET lower == Lower(transcript)
        Used(c) ==
            LET target == Lower(CardText(c))
            IN /\ target # << >>
               /\ (IsSubstring(target, lower) \/ FuzzyHit(target, lower, hasFuzz))
    IN {cards[i].id : i \in {j \in 1..Len(cards) : Used(cards[j])}}

----------------------------------------------------------------------------
(* llm_call.py: the mock result *)

S_es == <<"e","s">>

S_id == <<"i","d">>

S_esMX == <<"e","s","-","M","X">>

S_idID == <<"i","d","-","I","D">>

S_enUS == <<"e","n","-","U","S">>

\* The locale without the Indonesian branch.
LearningLocaleNoIndonesian(code) == IF StartsWith(code, S_es) THEN S_esMX ELSE S_enUS

\* "es-MX" if code.startswith("es") else ("id-ID" if code.startswith("id") else "en-US")
LearningLocale(code) ==
    IF StartsWith(code, S_es) THEN S_esMX
    ELSE IF StartsWith(code, S_id) THEN S_idID
    ELSE S_enUS

\* The loop of _mock_response matching on the lowercased texts, without the
\* normalizer.
MockUsedCardsLowerOnly(transcript, cards) ==
    LET IsMatch(c) ==
            CardText(c) # << >> /\ IsSubstring(Lower(CardText(c)), Lower(transcript))
        hits == SelectSeq(cards, IsMatch)
    IN [i \in 1..Len(hits) |-> hits[i].id]

\* The loop of _mock_response: the ids, in card order, of the cards whose
\* non-empty normalized text is a substring of the normalized transcript.
MockUsedCards(transcript, cards) ==
    LET normalized_transcript == _normalize_for_matching(transcript)
        IsMatch(c) ==
            LET normalized_val == _normalize_for_matching(CardText(c))
            IN normalized_val # << >> /\ IsSubstring(normalized_val, normalized_transcript)
        hits == SelectSeq(cards, IsMatch)
    IN [i \in 1..Len(hits) |-> hits[i].id]

S_mockPrefix == <<"(","m","o","c","k",")"," ">>

\* "(mock) small wording adjustments."
S_mockExplanation ==
    <<"(","m","o","c","k",")"," ","s","m","a","l","l"," ","w","o","r","d","i","n","g"," ","a","d","j","u","s","t","m","e","n","t","s",".">>

\* The mock result whose translation lacks the "(mock) " prefix.
_mock_response_no_prefix(transcript, active_cards, learning_code) ==
    [corrected_sentence |-> transcript,
     native_translation |-> transcript,
     used_card_ids |-> MockUsedCards(transcript, active_cards),
     asr_fixes |-> << >>,
     brief_explanation_native |-> S_mockExplanation,
     notes |-> << >>,
     audio_chunks |->
        <<[text |-> transcript, lang |-> LearningLocale(learning_code),
           purpose |-> "corrected_sentence"],
          [text |-> transcript, lang |-> S_enUS, purpose |-> "native_translation"]>>]

_mock_response(transcript, active_cards, learning_code) ==
    [corrected_sentence |-> transcript,
     native_translation |-> S_mockPrefix \o transcript,
     used_card_ids |-> MockUsedCards(transcript, active_cards),
     asr_fixes |-> << >>,
     brief_explanation_native |-> S_mockExplanation,
     notes |-> << >>,
     audio_chunks |->
        <<[text |-> transcript, lang |-> LearningLocale(learning_code),
           purpose |-> "corrected_sentence"],
          [text |-> S_mockPrefix \o transcript, lang |-> S_enUS,
           purpose |-> "native_translation"]>>]

----------------------------------------------------------------------------
(* llm_call.py: _extract_json on the text of the remote answer *)

S_json == <<"j","s","o","n">>

\* three backticks (the character is written "backtick")
S_fence == <<"backtick","backtick","backtick">>

S_NaN == <<"N","a","N">>

\* re.sub of the fence pattern with "", flags=re.IGNORECASE: scanning from
\* the left, every run of three backticks goes, together with a "json" (in
\* any case) right after it.
RECURSIVE RemoveFences(_)
RemoveFences(s) ==
    IF s = << >> THEN << >>
    ELSE IF StartsWith(s, S_fence)
         THEN IF StartsWith(Lower(SubSeq(s, 4, Len(s))), S_json)
              THEN RemoveFences(SubSeq(s, 8, Len(s)))
              ELSE RemoveFences(SubSeq(s, 4, Len(s)))
         ELSE <<Head(s)>> \o RemoveFences(Tail(s))

\* str.find(c) and str.rfind(c): the 0-based index, -1 when c is absent.
Find(s, c) ==
    IF \E i \in 1..Len(s) : s[i] = c
    THEN (CHOOSE i \in 1..Len(s) : s[i] = c /\ \A j \in 1..(i - 1) : s[j] # c) - 1
    ELSE -1

RFind(s, c) ==
    IF \E i \in 1..Len(s) : s[i] = c
    THEN (CHOOSE i \in 1..Len(s) : s[i] = c /\ \A j \in (i + 1)..Len(s) : s[j] # c) - 1
    ELSE -1

\* The JSON decoder reads a value at the head of a text and leaves the rest.
\* A decoded string is [t |-> "str", v |-> its characters], a number
\* [t |-> "num", v |-> its digits], an object [t |-> "obj", v |-> the mapping
\* of its keys], the constant NaN [t |-> "nan"].  The texts of the model hold
\* no escape sequence, no sign, no fraction and no array.
ParseFail == [ok |-> FALSE, value |-> << >>, rest |-> << >>]

\* A string literal at the head of s: the characters up to the next quote.
ParseString(s) ==
    IF s = << >> \/ Head(s) # "\"" THEN ParseFail
    ELSE LET body == SplitFirst(Tail(s), "\"")
         IN IF Len(body) = Len(s) - 1 THEN ParseFail
            ELSE [ok |-> TRUE, value |-> body, rest |-> SubSeq(s, Len(body) + 3, Len(s))]

RECURSIVE DigitRun(_)
DigitRun(s) ==
    IF s # << >> /\ Head(s) \in Range(Digits)
    THEN <<Head(s)>> \o DigitRun(Tail(s))
    ELSE << >>

\* An integer literal at the head of s: "0", or digits that do not start with 0.
ParseNumber(s) ==
    LET run == IF s # << >> /\ Head(s) = "0" THEN <<"0">> ELSE DigitRun(s)
    IN IF run = << >> THEN ParseFail
       ELSE [ok |-> TRUE, value |-> [t |-> "num", v |-> run],
             rest |-> SubSeq(s, Len(run) + 1, Len(s))]

S_trueLiteral == <<"t","r","u","e">>

S_falseLiteral == <<"f","a","l","s","e">>

\* The decoded values true and false, and a decoded string.
JsonBool(b) == [t |-> "bool", v |-> IF b THEN S_trueLiteral ELSE S_falseLiteral]

JsonStr(s) == [t |-> "str", v |-> s]

RECURSIVE ParseValue(_, _)
RECURSIVE ParseMembers(_, _, _, _)

\* The members of an object from s on, s without leading whitespace: after
\* "{" (first) or after ",".  acc maps the keys read so far; a key read again
\* takes the later value.
ParseMembers(s, acc, first, lenient) ==
    IF first /\ s # << >> /\ Head(s) = "}"
    THEN [ok |-> TRUE, value |-> [t |-> "obj", v |-> acc], rest |-> Tail(s)]
    ELSE LET key == ParseString(s)
             afterKey == LStrip(key.rest)
         IN IF ~key.ok \/ afterKey = << >> \/ Head(afterKey) # ":" THEN ParseFail
            ELSE LET val == ParseValue(Tail(afterKey), lenient)
                     next == LStrip(val.rest)
                     acc2 == [k \in (DOMAIN acc) \cup {key.value} |->
                                IF k = key.value THEN val.value ELSE acc[k]]
                 IN IF ~val.ok \/ next = << >> THEN ParseFail
                    ELSE IF Head(next) = "}"
                         THEN [ok |-> TRUE, value |-> [t |-> "obj", v |-> acc2],
                               rest |-> Tail(next)]
                    ELSE IF Head(next) = ","
                         THEN ParseMembers(LStrip(Tail(next)), acc2, FALSE, lenient)
                    ELSE ParseFail

\* A value at the head of s.  lenient: the constant NaN is accepted, as
\* json.loads of Python accepts it; RFC 8259 has no such value.
ParseValue(s, lenient) ==
    LET t == LStrip(s)
    IN IF t = << >> THEN ParseFail
       ELSE IF Head(t) = "\""
            THEN LET str == ParseString(t)
                 IN IF str.ok
                    THEN [ok |-> TRUE, value |-> [t |-> "str", v |-> str.value], rest |-> str.rest]
                    ELSE ParseFail
       ELSE IF Head(t) = "{" THEN ParseMembers(LStrip(Tail(t)), << >>, TRUE, lenient)
       ELSE IF StartsWith(t, S_NaN)
            THEN IF lenient
                 THEN [ok |-> TRUE, value |-> [t |-> "nan", v |-> << >>],
                       rest |-> SubSeq(t, 4, Len(t))]
                 ELSE ParseFail
       ELSE IF StartsWith(t, S_trueLiteral)
            THEN [ok |-> TRUE, value |-> JsonBool(TRUE), rest |-> SubSeq(t, 5, Len(t))]
       ELSE IF StartsWith(t, S_falseLiteral)
            THEN [ok |-> TRUE, value |-> JsonBool(FALSE), rest |-> SubSeq(t, 6, Len(t))]
       ELSE ParseNumber(t)

\* A whole text decoded: one value, whitespace around it, nothing else.
Decode(s, lenient) ==
    LET read == ParseValue(s, lenient)
    IN IF read.ok /\ LStrip(read.rest) = << >>
       THEN [raised |-> FALSE, value |-> read.value.v]
       ELSE [raised |-> TRUE, value |-> << >>]

\* json.loads(s), s the text of an object
json_loads(s) == Decode(s, TRUE)

\* _extract_json(text): raises, or returns the mapping decoded from
\* text2[start:end+1].
extract_json(text) ==
    LET text2 == Strip(RemoveFences(text))
        start == Find(text2, "{")
        end == RFind(text2, "}")
    IN IF start = -1 \/ end = -1 \/ end < start
       THEN [raised |-> TRUE, value |-> << >>]
       ELSE json_loads(SubSeq(text2, start + 1, end + 1))

\* json.dumps(value) of a value given with its members in order: an object
\* is [t |-> "obj", v |-> the sequence of its <<key, value>> pairs].
RECURSIVE json_dumps(_)
RECURSIVE DumpMembers(_)
DumpMembers(members) ==
    IF members = << >> THEN << >>
    ELSE <<"\"">> \o members[1][1] \o <<"\"", ":", " ">> \o json_dumps(members[1][2])
          \o (IF Len(members) > 1 THEN <<",", " ">> ELSE << >>)
          \o DumpMembers(Tail(members))

json_dumps(val) ==
    CASE val.t = "str" -> <<"\"">> \o val.v \o <<"\"">>
      [] val.t = "num" -> val.v
      [] val.t = "obj" -> <<"{">> \o DumpMembers(val.v) \o <<"}">>

\* The mapping a value given with its members in order stands for.
RECURSIVE AsDecoded(_)
AsDecoded(val) ==
    IF val.t # "obj" THEN val
    ELSE [t |-> "obj",
          v |-> [k \in {val.v[i][1] : i \in 1..Len(val.v)} |->
                   AsDecoded(val.v[CHOOSE i \in 1..Len(val.v) :
                                      /\ val.v[i][1] = k
                                      /\ \A j \in (i + 1)..Len(val.v) : val.v[j][1] # k][2])]]

----------------------------------------------------------------------------
(* State *)

VARIABLES
    mockEnv,        \* the MOCK_MODE environment variable: << >> when unset, <<value>> when set
    openaiKey,      \* OPENAI_API_KEY is set
    azureLlm,       \* AZURE_OPENAI_API_KEY and AZURE_OPENAI_BASE_URL are set
    speechKey,      \* AZURE_SPEECH_KEY is set
    speechRegion,   \* AZURE_REGION is set
    lexicalPaths,   \* the host resolves ".." lexically (Win32) instead of through the directory tree (POSIX)
    request,        \* the request being answered; kind "none" between requests
    response,       \* its response
    llmCalls,       \* remote LLM invocations made for the request
    llmReply,       \* what the remote LLM answers to the request, when it is asked
    llmOut,         \* what call_llm_for_turn gave the handler: raised, or the turn result
    ttsLog,         \* one entry per tts_bytes_for_chunk call made for the request
    writes,         \* one entry per save_wav call made for the request
    call,           \* a function of the program called on its own: its name and arguments
    result,         \* what that call gave
    pipeReq,        \* the request the pipeline service is answering; op "none" between requests
    pipeResp,       \* its response
    convFiles,      \* the files of CONV_ROOT: file name |-> content
    tasks,          \* the background writes scheduled and not finished
    acked,          \* session id |-> the messages of the latest save answered 200 (history)
    audioDir,       \* the files under AUDIO_ROOT written by the pipeline
    audioCache      \* AUDIO_CACHE: filename |-> bytes

vars == <<mockEnv, openaiKey, azureLlm, speechKey, speechRegion, lexicalPaths,
          request, response, llmCalls, llmReply, llmOut, ttsLog, writes, call, result,
          pipeReq, pipeResp, convFiles, tasks, acked, audioDir, audioCache>>

pipeVars == <<pipeReq, pipeResp, convFiles, tasks, acked, audioDir, audioCache>>

NoPipeReq == [op |-> "none"]

NoPipeResp == [status |-> 0]

\* The pipeline service has answered nothing and written nothing.
PipeReset ==
    /\ pipeReq = NoPipeReq
    /\ pipeResp = NoPipeResp
    /\ convFiles = << >>
    /\ tasks = << >>
    /\ acked = << >>
    /\ audioDir = << >>
    /\ audioCache = << >>

turnVars == <<request, response, llmCalls, llmReply, llmOut, ttsLog, writes>>

NoObject == [t |-> "none", v |-> << >>]

NoCall == [fn |-> "none", arg |-> << >>, from |-> NoObject]

NoValue == [raised |-> FALSE, value |-> << >>]

config == <<mockEnv, openaiKey, azureLlm, speechKey, speechRegion, lexicalPaths>>

----------------------------------------------------------------------------
(* Configuration: the three readings of MOCK_MODE *)

S_1 == <<"1">>

S_0 == <<"0">>

S_true == <<"t","r","u","e">>

S_yes == <<"y","e","s">>

S_on == <<"o","n">>

\* os.getenv(name, default)
GetEnv(var, default) == IF var = << >> THEN default ELSE var[1]

\* llm_call.py: MOCK_MODE = os.getenv("MOCK_MODE", "1") == "1"
LlmMockMode == GetEnv(mockEnv, S_1) = S_1

\* tts_helpers.py: MOCK_MODE = os.getenv("MOCK_MODE", "0") == "1"
TtsMockMode == GetEnv(mockEnv, S_0) = S_1

\* game_backend.py: parse_bool_env(varname, default)
parse_bool_env(var, default) ==
    IF var = << >> THEN default
    ELSE Lower(Strip(var[1])) \in {S_1, S_true, S_yes, S_on}

\* game_backend.py: MOCK_MODE = parse_bool_env("MOCK_MODE", default=True)
GameMockMode == parse_bool_env(mockEnv, TRUE)

\* fastapi_wispr_pipeline.py: MOCK_MODE = os.getenv("MOCK_MODE", "1") == "1"
PipelineMockMode == GetEnv(mockEnv, S_1) = S_1

\* fastapi_wispr_pipeline.py: the module loads, the RuntimeError of its
\* credential test is not raised.
PipelineStarts == openaiKey \/ PipelineMockMode

----------------------------------------------------------------------------
(* tts_helpers.py *)

SampleRate == 22050

\* generate_silent_wav(duration_secs), the duration given in quarters of a
\* second: n_frames = int(duration_secs * sample_rate) frames of silence.
generate_silent_wav(quarters) ==
    [kind |-> "silence", quarters |-> quarters, frames |-> (quarters * SampleRate) \div 4]

SampleAudio == [kind |-> "test_audio", quarters |-> 0, frames |-> 0]

AzureAudio == [kind |-> "azure", quarters |-> 0, frames |-> 0]

NoAudio == [kind |-> "none", quarters |-> 0, frames |-> 0]

\* The silence policy with the handler's cap of 3.5 seconds.
FallbackSilenceCappedShort(text) == generate_silent_wav(Min(14, Max(1, WordCount(text))))

\* words = max(1, len(str(text).split())); duration = min(4.0, 0.25 * words)
FallbackSilence(text) == generate_silent_wav(Min(16, Max(1, WordCount(text))))

\* azure_tts_bytes_real(text, locale): raises without credentials, on an
\* exception of requests.post (connection error, timeout) and on a status
\* other than 200; else returns the body.  remote is the service's answer.
azure_tts_bytes_real(text, locale, remote) ==
    IF ~speechKey \/ ~speechRegion
    THEN [raised |-> TRUE, bytes |-> NoAudio, called |-> FALSE]
    ELSE IF remote = "ok"
         THEN [raised |-> FALSE, bytes |-> AzureAudio, called |-> TRUE]
         ELSE [raised |-> TRUE, bytes |-> NoAudio, called |-> TRUE]

\* tts_bytes_for_chunk without the try/except around the remote call.
tts_bytes_for_chunk_unguarded(text, lang_tag, sample, remote) ==
    IF TtsMockMode
    THEN IF sample = "readable"
         THEN [raised |-> FALSE, bytes |-> SampleAudio, called |-> FALSE]
         ELSE [raised |-> FALSE, bytes |-> FallbackSilence(text), called |-> FALSE]
    ELSE IF speechKey /\ speechRegion
         THEN azure_tts_bytes_real(text, lang_tag, remote)
         ELSE [raised |-> FALSE, bytes |-> FallbackSilence(text), called |-> FALSE]

\* tts_bytes_for_chunk(text, lang_tag).  sample is the state of TEST_AUDIO_PATH
\* ("missing", "readable", "unreadable"), remote the TTS service's answer.
tts_bytes_for_chunk(text, lang_tag, sample, remote) ==
    IF TtsMockMode
    THEN IF sample = "readable"
         THEN [raised |-> FALSE, bytes |-> SampleAudio, called |-> FALSE]
         ELSE [raised |-> FALSE, bytes |-> FallbackSilence(text), called |-> FALSE]
    ELSE IF speechKey /\ speechRegion
         THEN LET real == azure_tts_bytes_real(text, lang_tag, remote)
              IN IF real.raised
                 THEN [raised |-> FALSE, bytes |-> FallbackSilence(text), called |-> real.called]
                 ELSE real
         ELSE [raised |-> FALSE, bytes |-> FallbackSilence(text), called |-> FALSE]

----------------------------------------------------------------------------
(* llm_call.py: call_llm_for_turn *)

TextKeys == {"corrected_sentence", "native_translation", "brief_explanation_native", "notes"}

ListKeys == {"used_card_ids", "asr_fixes", "audio_chunks"}

\* _init_client without the MOCK_MODE test.
_init_client_ignores_mock == azureLlm \/ openaiKey

\* _init_client() returns a client
_init_client ==
    IF LlmMockMode THEN FALSE
    ELSE IF azureLlm THEN TRUE
    ELSE IF openaiKey THEN TRUE
    ELSE FALSE

\* _extract_json on the text of the remote answer: an error when the text
\* holds no JSON object or one that does not parse, else the parsed mapping.
_extract_json(reply) ==
    IF reply.kind = "json"
    THEN [raised |-> FALSE, value |-> reply.body]
    ELSE [raised |-> TRUE, value |-> << >>]

\* The defaults given to the text keys only.
SetDefaultsTextOnly(parsed) ==
    [k \in (DOMAIN parsed) \cup TextKeys |->
        IF k \in DOMAIN parsed THEN parsed[k] ELSE << >>]

\* parsed.setdefault(k, "") / parsed.setdefault(k, []) for the seven keys
SetDefaults(parsed) ==
    [k \in (DOMAIN parsed) \cup TextKeys \cup ListKeys |->
        IF k \in DOMAIN parsed THEN parsed[k] ELSE << >>]

\* call_llm_for_turn whose except clause re-raises.
call_llm_for_turn_reraises(transcript, active_cards, learning_code, reply) ==
    IF ~_init_client
    THEN [raised |-> FALSE, called |-> FALSE,
          value |-> _mock_response(transcript, active_cards, learning_code)]
    ELSE IF reply.kind = "json"
         THEN [raised |-> FALSE, called |-> TRUE, value |-> SetDefaults(reply.body)]
         ELSE [raised |-> TRUE, called |-> TRUE, value |-> << >>]

\* call_llm_for_turn that fills a missing used_card_ids with the local
\* detector's result instead of the empty list.
call_llm_for_turn_detector_default(transcript, active_cards, learning_code, reply) ==
    IF ~_init_client \/ reply.kind # "json"
    THEN [raised |-> FALSE, called |-> _init_client,
          value |-> _mock_response(transcript, active_cards, learning_code)]
    ELSE [raised |-> FALSE, called |-> TRUE,
          value |-> SetDefaults(
              IF "used_card_ids" \in DOMAIN reply.body THEN reply.body
              ELSE [k \in (DOMAIN reply.body) \cup {"used_card_ids"} |->
                      IF k = "used_card_ids"
                      THEN MockUsedCards(transcript, active_cards)
                      ELSE reply.body[k]])]

\* reply is what the remote LLM does when it is called: kind "network_error"
\* or "timeout" (client.responses.create raises), "no_json" and
\* "invalid_json" (_extract_json raises), "json" (body is the parsed object).
call_llm_for_turn(transcript, active_cards, learning_code, reply) ==
    IF ~_init_client
    THEN [raised |-> FALSE, called |-> FALSE,
          value |-> _mock_response(transcript, active_cards, learning_code)]
    ELSE IF reply.kind \in {"network_error", "timeout"}
         THEN [raised |-> FALSE, called |-> TRUE,
               value |-> _mock_response(transcript, active_cards, learning_code)]
         ELSE LET parsed == _extract_json(reply)
              IN IF parsed.raised
                 THEN [raised |-> FALSE, called |-> TRUE,
                       value |-> _mock_response(transcript, active_cards, learning_code)]
                 ELSE [raised |-> FALSE, called |-> TRUE,
                       value |-> SetDefaults(parsed.value)]

----------------------------------------------------------------------------
(* llm_call.py: check_trivia_answer *)

K_is_correct == <<"i","s","_","c","o","r","r","e","c","t">>

K_feedback == <<"f","e","e","d","b","a","c","k">>

K_corrected_answer == <<"c","o","r","r","e","c","t","e","d","_","a","n","s","w","e","r">>

\* "Correct!"
S_correct == <<"C","o","r","r","e","c","t","!">>

\* "Not quite right. Try again!"
S_notQuite == <<"N","o","t"," ","q","u","i","t","e"," ","r","i","g","h","t","."," ","T","r","y"," ","a","g","a","i","n","!">>

\* The answer of the mock branch (prefix "(mock) ") and of the except branch
\* (no prefix): the two answers compared after normalization.
TriviaFallback(user_answer, correct_answer, prefix) ==
    LET is_correct ==
            _normalize_for_matching(user_answer) = _normalize_for_matching(correct_answer)
    IN (K_is_correct :> JsonBool(is_correct))
         @@ (K_feedback :> JsonStr(prefix \o (IF is_correct THEN S_correct ELSE S_notQuite)))
         @@ (K_corrected_answer :> JsonStr(correct_answer))

\* learning.get("code", "")[:2] and fluent.get("name", "English"), which
\* stand before the try statement, raise: learning or fluent is None, or
\* the code is None.
TriviaPromptRaises(fluent, learning) ==
    learning.t = "none" \/ learning.code.t = "null" \/ fluent.t = "none"

\* parsed.setdefault("is_correct", False), ("feedback", ""),
\* ("corrected_answer", correct_answer)
TriviaDefaults(parsed, correct_answer) ==
    parsed @@ (K_is_correct :> JsonBool(FALSE))
           @@ (K_feedback :> JsonStr(<< >>))
           @@ (K_corrected_answer :> JsonStr(correct_answer))

\* check_trivia_answer(user_answer, correct_answer, english_prompt, fluent,
\* learning); reply is what the remote service does when it is asked: it
\* fails (kind "raise") or answers a text.
check_trivia_answer(user_answer, correct_answer, fluent, learning, reply) ==
    IF ~_init_client
    THEN [raised |-> FALSE, value |-> TriviaFallback(user_answer, correct_answer, S_mockPrefix)]
    ELSE IF TriviaPromptRaises(fluent, learning)
         THEN [raised |-> TRUE, value |-> << >>]
    ELSE LET parsed == IF reply.kind = "text" THEN extract_json(reply.text)
                       ELSE [raised |-> TRUE, value |-> << >>]
         IN IF parsed.raised
            THEN [raised |-> FALSE, value |-> TriviaFallback(user_answer, correct_answer, << >>)]
            ELSE [raised |-> FALSE, value |-> TriviaDefaults(parsed.value, correct_answer)]

----------------------------------------------------------------------------
(* game_backend.py: save_wav *)

S_app == <<"a","p","p">>

S_audio_files == <<"a","u","d","i","o","_","f","i","l","e","s">>

S_session_ == <<"s","e","s","s","i","o","n","_">>

S_sess_ == <<"s","e","s","s","_">>

S_turn_ == <<"t","u","r","n","_">>

S_anon == <<"a","n","o","n">>

S_wav == <<".","w","a","v">>

S_dot == <<".">>

S_dotdot == <<".", ".">>

\* A path is the sequence of its components, from the file system's root.
\* API_ROOT = Path(__file__).resolve().parent; AUDIO_ROOT = API_ROOT / "audio_files"
API_ROOT == <<S_app>>

AUDIO_ROOT == API_ROOT \o <<S_audio_files>>

Parent(path) == IF path = << >> THEN << >> ELSE SubSeq(path, 1, Len(path) - 1)

\* re.sub(r'[^a-zA-Z0-9_\-]', '_', s)
Sanitize(s) == [i \in 1..Len(s) |-> IF s[i] \in SafeChars THEN s[i] ELSE "_"]

\* AUDIO_ROOT / f"session_{safe}"
SessionFolder(safe) == AUDIO_ROOT \o <<S_session_ \o safe>>

\* The components pathlib keeps of a relative name: the fields between "/",
\* without the empty ones and without ".".
NameParts(name) ==
    LET Kept(part) == part # << >> /\ part # S_dot
    IN SelectSeq(SplitOn(name, "/"), Kept)

\* open(path, 'wb') of cur/parts on a disk whose directories are dirs: the
\* path of the file written, or failure.  A POSIX host walks the directory
\* tree, so every directory on the way must exist; a host that resolves
\* lexically (Win32) first cancels "name/.." pairs and then needs the final
\* directory only.
RECURSIVE OpenForWrite(_, _, _, _)
OpenForWrite(cur, parts, dirs, lexical) ==
    IF parts = << >> THEN [ok |-> FALSE, path |-> << >>]
    ELSE IF Len(parts) = 1
    THEN IF cur \in dirs /\ parts[1] # S_dotdot
         THEN [ok |-> TRUE, path |-> cur \o <<parts[1]>>]
         ELSE [ok |-> FALSE, path |-> << >>]
    ELSE LET next == IF Head(parts) = S_dotdot THEN Parent(cur) ELSE cur \o <<Head(parts)>>
         IN IF ~lexical /\ next \notin dirs
            THEN [ok |-> FALSE, path |-> << >>]
            ELSE OpenForWrite(next, Tail(parts), dirs, lexical)

\* save_wav(session_id, turn_id, lang_code, idx, wav_bytes) at clock ts.
\* The directories of the disk are the root, API_ROOT, AUDIO_ROOT and the
\* session folder that folder.mkdir has just made sure of: no code of the
\* program creates a directory below a session folder.
save_wav(session_id, turn_id, lang_code, idx, wav_bytes, ts) ==
    LET safe == Sanitize(IF session_id = << >> THEN S_anon ELSE session_id)
        folder == SessionFolder(safe)
        filename == turn_id \o <<"_">> \o lang_code \o <<"_">> \o DigitsOf(idx)
                      \o <<"_">> \o DigitsOf(ts) \o S_wav
        dirs == {<< >>, API_ROOT, AUDIO_ROOT, folder}
        opened == OpenForWrite(folder, NameParts(filename), dirs, lexicalPaths)
    IN [raised |-> ~opened.ok,
        folder |-> folder,
        path |-> opened.path,
        bytes |-> wav_bytes,
        url |-> [session |-> safe, filename |-> filename]]

----------------------------------------------------------------------------
(* game_backend.py: api_turn *)

S_translationPrefix == <<"(","t","r","a","n","s","l","a","t","i","o","n",")"," ">>

S_en == <<"e","n">>

NoFile == [session |-> << >>, filename |-> << >>]

\* d.get(k) or default
GetOr(d, k, default) == IF k \in DOMAIN d /\ d[k] # << >> THEN d[k] ELSE default

\* d.get(k, default)
GetDefault(d, k, default) == IF k \in DOMAIN d THEN d[k] ELSE default

\* The loop over enumerate(audio_chunks), from index idx (0-based) on.
\* Returns the audio_files entries appended, the tts_bytes_for_chunk calls and
\* the save_wav calls made.
RECURSIVE ProcessChunks(_, _, _, _, _, _, _)
ProcessChunks(chunks, idx, session_safe, turn_id, sample, ttsReplies, ts) ==
    IF idx >= Len(chunks)
    THEN [audio_files |-> << >>, ttsLog |-> << >>, writes |-> << >>]
    ELSE LET chunk == chunks[idx + 1]
             text == chunk.text
             lang == IF chunk.lang = << >> THEN S_enUS ELSE chunk.lang
             purpose == chunk.purpose
             tts == tts_bytes_for_chunk(text, lang, sample, ttsReplies[idx + 1])
             wav_bytes == IF tts.raised
                          THEN generate_silent_wav(Min(14, Max(1, WordCount(text))))
                          ELSE tts.bytes
             lang_short == SplitFirst(lang, "-")
             saved == save_wav(session_safe, turn_id, lang_short, idx, wav_bytes, ts)
             rest == ProcessChunks(chunks, idx + 1, session_safe, turn_id, sample, ttsReplies, ts)
             entry == [purpose |-> purpose, audio_file |-> saved.url, lang |-> lang]
         IN [audio_files |-> (IF saved.raised THEN << >> ELSE <<entry>>) \o rest.audio_files,
             ttsLog |-> <<[text |-> text, lang |-> lang, reply |-> ttsReplies[idx + 1],
                           sample |-> sample, result |-> tts]>> \o rest.ttsLog,
             writes |-> <<saved>> \o rest.writes]

\* The first entry of audio_files that Test accepts, else None.
FirstFile(audio_files, Test(_)) ==
    LET hits == SelectSeq(audio_files, Test)
    IN IF hits = << >> THEN NoFile ELSE hits[1].audio_file

NoResult == [raised |-> FALSE, value |-> << >>]

BadRequest ==
    [status |-> 400, turn_id |-> << >>, corrected_sentence |-> << >>,
     native_translation |-> << >>, used_card_ids |-> << >>, audio_files |-> << >>,
     audio_file_en |-> NoFile, audio_file_learning |-> NoFile]

\* api_turn from the response dict on (lines 228-255): llm is what
\* call_llm_for_turn gave, done what the loop over the chunks did.
TurnResponse(learning_code, llm, corrected, native_translation, used_card_ids, turn_id, done) ==
    LET IsEn(af) == af.purpose = "native_translation" \/ StartsWith(Lower(af.lang), S_en)
        IsLearning(af) ==
            \/ af.purpose = "corrected_sentence"
            \/ StartsWith(Lower(af.lang), SubSeq(learning_code, 1, Min(2, Len(learning_code))))
    IN [response |->
          [status |-> 200,
           turn_id |-> turn_id,
           corrected_sentence |-> corrected,
           native_translation |-> native_translation,
           used_card_ids |-> used_card_ids,
           audio_files |-> done.audio_files,
           audio_file_en |-> FirstFile(done.audio_files, IsEn),
           audio_file_learning |-> FirstFile(done.audio_files, IsLearning)],
        llmCalls |-> IF llm.called THEN 1 ELSE 0,
        llmOut |-> [raised |-> llm.raised, value |-> IF llm.raised THEN << >> ELSE llm.value],
        ttsLog |-> done.ttsLog,
        writes |-> done.writes]

\* api_turn once call_llm_for_turn has returned llm (lines 188-226): the
\* fields read from llm_out with their defaults, the chunks, the loop.
TurnFromLlm(req, transcript, learning_code, llm, ttsReplies, sample, ts) ==
    LET llm_out == IF llm.raised THEN << >> ELSE llm.value
        corrected == GetOr(llm_out, "corrected_sentence", transcript)
        native_translation ==
            GetOr(llm_out, "native_translation",
                  GetOr(llm_out, "english", S_translationPrefix \o transcript))
        used_card_ids ==
            GetDefault(llm_out, "used_card_ids", GetDefault(llm_out, "used_cards", << >>))
        given_chunks == GetDefault(llm_out, "audio_chunks", << >>)
        audio_chunks ==
            IF given_chunks = << >>
            THEN <<[text |-> corrected, lang |-> LearningLocale(learning_code),
                    purpose |-> "corrected_sentence"],
                   [text |-> native_translation, lang |-> S_enUS,
                    purpose |-> "native_translation"]>>
            ELSE given_chunks
        turn_id == S_turn_ \o DigitsOf(ts)
        session_safe == IF req.session_id = << >> THEN S_sess_ \o DigitsOf(ts)
                        ELSE req.session_id
    IN TurnResponse(learning_code, llm, corrected, native_translation, used_card_ids, turn_id,
                    ProcessChunks(audio_chunks, 0, session_safe, turn_id, sample, ttsReplies, ts))

\* api_turn on the stripped transcript and the learning code (lines 162-187).
TurnValidated(req, transcript, learning_code, reply, ttsReplies, sample, ts) ==
    IF transcript = << >>
    THEN [response |-> BadRequest, llmCalls |-> 0, llmOut |-> NoResult,
          ttsLog |-> << >>, writes |-> << >>]
    ELSE TurnFromLlm(req, transcript, learning_code,
                     call_llm_for_turn(transcript, req.active_cards, learning_code, reply),
                     ttsReplies, sample, ts)

\* api_turn(req) at clock ts.  reply is the remote LLM's answer, ttsReplies
\* the TTS service's answer to each chunk, sample the state of the bundled
\* sample audio.  Returns the response and the calls made.
api_turn(req, reply, ttsReplies, sample, ts) ==
    TurnValidated(req, Strip(req.transcript),
                  IF req.learning = << >> THEN S_es ELSE req.learning[1],
                  reply, ttsReplies, sample, ts)

----------------------------------------------------------------------------
(* Inputs *)

\* The readings of the clock, int(time.time()*1000), are 1..MaxClock.
MaxClock == 1

\* " Flór, el lobo."
T_lobo == <<" ","F","l","o_acute","r",","," ","e","l"," ","l","o","b","o",".">>

\* "lobe"
T_lobe == <<"l","o","b","e">>

\* " \t"
T_blank == <<" ","\t">>

Transcripts == {<< >>, T_blank, T_lobo, T_lobe}

c_lobo == [id |-> "c_lobo", value |-> <<"l","o","b","o">>, display_text |-> << >>]

\* value empty, display_text "Flor!"
c_flor == [id |-> "c_flor", value |-> << >>, display_text |-> <<"F","l","o","r","!">>]

\* value "¡!", whose normalized form is empty
c_bang == [id |-> "c_bang", value |-> <<"inv_e","!">>, display_text |-> << >>]

CardLists == {<< >>, <<c_flor, c_bang, c_lobo>>}

\* None, "s1", "../s"
SessionIds == {<< >>, <<"s","1">>, <<".",".","/","s">>}

\* None, code "id", code "en"
Learnings == {<< >>, <<S_id>>, <<S_en>>}

Requests ==
    [kind : {"turn"}, session_id : SessionIds, active_cards : CardLists,
     transcript : Transcripts, learning : Learnings]

NoRequest ==
    [kind |-> "none", session_id |-> << >>, active_cards |-> << >>,
     transcript |-> << >>, learning |-> << >>]

NoResponse == [BadRequest EXCEPT !.status = 0]

S_elLobo == <<"E","l"," ","l","o","b","o">>

S_theWolf == <<"T","h","e"," ","w","o","l","f">>

\* "/../../e": a lang value that names a path
S_pathLang == <<"/",".",".","/",".",".","/","e">>

CorrectedChunk(lang) == [text |-> S_elLobo, lang |-> lang, purpose |-> "corrected_sentence"]

NativeChunk == [text |-> S_theWolf, lang |-> S_enUS, purpose |-> "native_translation"]

\* The objects the remote LLM may answer with.
B_good ==
    [corrected_sentence |-> S_elLobo, native_translation |-> S_theWolf,
     used_card_ids |-> <<"c_lobo">>,
     audio_chunks |-> <<CorrectedChunk(S_esMX), NativeChunk>>]

B_reversed ==
    [corrected_sentence |-> S_elLobo, native_translation |-> S_theWolf,
     used_card_ids |-> <<"c_ghost">>,
     audio_chunks |-> <<NativeChunk, CorrectedChunk(S_esMX)>>]

B_pathLang ==
    [corrected_sentence |-> S_elLobo,
     audio_chunks |-> <<CorrectedChunk(S_pathLang)>>]

B_noChunks ==
    [native_translation |-> S_theWolf, audio_chunks |-> << >>]

\* "a a ... a": seventeen words
S_17words == [i \in 1..33 |-> IF i % 2 = 1 THEN "a" ELSE " "]

\* A chunk with no text and a chunk of more than sixteen words.
B_lengths ==
    [audio_chunks |->
        <<[text |-> << >>, lang |-> S_enUS, purpose |-> "corrected_sentence"],
          [text |-> S_17words, lang |-> S_enUS, purpose |-> "native_translation"]>>]

LlmBodies == {<< >>, B_good, B_reversed, B_pathLang, B_noChunks, B_lengths}

LlmFailures == {"network_error", "timeout", "no_json", "invalid_json"}

LlmReplies ==
    [kind : LlmFailures, body : {<< >>}] \cup [kind : {"json"}, body : LlmBodies]

NotAsked == [kind |-> "not_asked", body |-> << >>]

TtsReplies == {"ok", "bad_status", "connection_error", "timeout"}

SampleStates == {"missing", "readable", "unreadable"}

----------------------------------------------------------------------------
(* Behaviour *)

\* The number of chunks the handler synthesizes for a request and an answer
\* of the remote LLM: the TTS service is asked once for each.
ChunkCount(req, reply) ==
    Len(api_turn(req, reply, [i \in Nat |-> "ok"], "missing", 0).ttsLog)

Init ==
    /\ mockEnv \in {<< >>, <<S_1>>, <<S_0>>}
    /\ openaiKey \in BOOLEAN
    /\ azureLlm \in BOOLEAN
    /\ speechKey \in BOOLEAN
    /\ speechRegion \in BOOLEAN
    /\ lexicalPaths \in BOOLEAN
    /\ request = NoRequest
    /\ response = NoResponse
    /\ llmCalls = 0
    /\ llmReply = NotAsked
    /\ llmOut = NoResult
    /\ ttsLog = << >>
    /\ writes = << >>
    /\ call = NoCall
    /\ result = NoValue
    /\ PipeReset

\* The answers the TTS service may give to the n chunks of a turn.
TtsReplyLists(n) ==
    IF ~TtsMockMode /\ speechKey /\ speechRegion
    THEN [1..n -> TtsReplies]
    ELSE {[i \in 1..n |-> "ok"]}

\* The handler's run becomes the state.
Answered(req, reply, run) ==
    /\ request' = req
    /\ llmReply' = reply
    /\ response' = run.response
    /\ llmCalls' = run.llmCalls
    /\ llmOut' = run.llmOut
    /\ ttsLog' = run.ttsLog
    /\ writes' = run.writes
    /\ UNCHANGED <<call, result, pipeVars>>

\* POST /api/game/turn: the handler runs from the request to its response.
\* The remote services answer only when the configuration lets the handler
\* reach them; the sample file is looked at only in the synthesizer's mock mode.
Turn ==
    /\ request.kind = "none"
    /\ \E req \in Requests, ts \in 1..MaxClock :
       \E reply \in (IF _init_client THEN LlmReplies ELSE {NotAsked}) :
       \E ttsReplies \in TtsReplyLists(ChunkCount(req, reply)) :
       \E sample \in (IF TtsMockMode THEN SampleStates ELSE {"missing"}) :
          Answered(req, reply, api_turn(req, reply, ttsReplies, sample, ts))
    /\ UNCHANGED config

\* The response is sent; the handler's locals are gone.
Respond ==
    /\ request.kind # "none"
    /\ request' = NoRequest
    /\ response' = NoResponse
    /\ llmCalls' = 0
    /\ llmReply' = NotAsked
    /\ llmOut' = NoResult
    /\ ttsLog' = << >>
    /\ writes' = << >>
    /\ UNCHANGED <<config, call, result, pipeVars>>

Next == Turn \/ Respond

Spec == Init /\ [][Next]_vars

----------------------------------------------------------------------------
(* The functions of llm_call.py called on their own *)

\* The most pieces a text is put together from.
MaxPieces == 4

\* {  }  "a":  "}"  1  NaN  a fence with JSON after it  hi  ,
Pieces ==
    {<<"{">>, <<"}">>, <<"\"","a","\"",":">>, <<"\"","}","\"">>, <<"1">>, S_NaN,
     S_fence \o <<"J","S","O","N">>, <<"h","i"," ">>, <<",">>}

Texts == {Flatten(ps) : ps \in UNION {[1..n -> Pieces] : n \in 0..MaxPieces}}

\* The program is loaded in mock mode without credentials, or with mock
\* mode off and an OpenAI key; no request is being answered.
PureInit ==
    /\ \/ mockEnv = <<S_1>> /\ openaiKey = FALSE
       \/ mockEnv = <<S_0>> /\ openaiKey = TRUE
    /\ azureLlm = FALSE
    /\ speechKey = FALSE
    /\ speechRegion = FALSE
    /\ lexicalPaths = FALSE
    /\ request = NoRequest
    /\ response = NoResponse
    /\ llmCalls = 0
    /\ llmReply = NotAsked
    /\ llmOut = NoResult
    /\ ttsLog = << >>
    /\ writes = << >>
    /\ call = NoCall
    /\ result = NoValue
    /\ PipeReset

\* _extract_json(text) is called on a text.
ExtractJson ==
    /\ call.fn = "none"
    /\ \E text \in Texts :
          /\ call' = [fn |-> "_extract_json", arg |-> text, from |-> NoObject]
          /\ result' = extract_json(text)
    /\ UNCHANGED <<config, turnVars, pipeVars>>

\* The most members an object of the round trip has.
MaxMembers == 2

S_noise == <<"n","o","i","s","e">>

\* The values of the members: "x", "}", "{", "}{", a string of three
\* backticks, 1, {}, {"b": "}"}.
MemberValues ==
    {[t |-> "str", v |-> <<"x">>], [t |-> "str", v |-> <<"}">>], [t |-> "str", v |-> <<"{">>],
     [t |-> "str", v |-> <<"}", "{">>], [t |-> "str", v |-> S_fence],
     [t |-> "num", v |-> <<"1">>], [t |-> "obj", v |-> << >>],
     [t |-> "obj", v |-> << <<<<"b">>, [t |-> "str", v |-> <<"}">>]>> >>]}

\* "a", "b", ...
MemberKeys == [i \in 1..MaxMembers |-> <<LowerLetters[i]>>]

\* The objects with up to MaxMembers members, keyed "a", "b" in this order.
JsonObjects ==
    {[t |-> "obj", v |-> [i \in 1..n |-> <<MemberKeys[i], vs[i]>>]] :
        n \in 0..MaxMembers, vs \in [1..MaxMembers -> MemberValues]}

\* "noise " + json.dumps(O) + " noise"
Noised(O) == S_noise \o <<" ">> \o json_dumps(O) \o <<" ">> \o S_noise

\* _extract_json is called on the serialization of an object, noise around it.
ExtractSerialized ==
    /\ call.fn = "none"
    /\ \E O \in JsonObjects :
          /\ call' = [fn |-> "_extract_json", arg |-> Noised(O), from |-> O]
          /\ result' = extract_json(Noised(O))
    /\ UNCHANGED <<config, turnVars, pipeVars>>

\* value "(inverted !)Lob(o acute)!": an accent and punctuation
c_accent ==
    [id |-> "c_accent", value |-> <<"inv_e","L","o","b","o_acute","!">>, display_text |-> << >>]

DetectCards == {c_lobo, c_flor, c_bang, c_accent}

\* _mock_response is called with one card and the learning language "es".
MockDetect ==
    /\ call.fn = "none"
    /\ \E t \in Transcripts, c \in DetectCards :
          /\ call' = [fn |-> "_mock_response", arg |-> <<t, c>>, from |-> NoObject]
          /\ result' = [raised |-> FALSE, value |-> _mock_response(t, <<c>>, S_es)]
    /\ UNCHANGED <<config, turnVars, pipeVars>>

\* fuzzy_card_detect(transcript, [c]) is called with one card, in a process
\* that could import rapidfuzz or in one that could not.
FuzzyDetect ==
    /\ call.fn = "none"
    /\ \E t \in Transcripts, c \in DetectCards, hasFuzz \in BOOLEAN :
          /\ call' = [fn |-> "fuzzy_card_detect", arg |-> <<t, c>>, from |-> NoObject]
          /\ result' = [raised |-> FALSE, value |-> fuzzy_card_detect(t, <<c>>, hasFuzz)]
    /\ UNCHANGED <<config, turnVars, pipeVars>>

\* The most characters of a text given to the normalizer.
MaxChars == 4

\* A letter, an accented capital, N with tilde, a combining mark, two
\* whitespace characters and a punctuation character.
NormChars == {"o", "O_acute", "N_tilde", "comb_acute", " ", "\t", "."}

NormTexts == UNION {[1..n -> NormChars] : n \in 0..MaxChars}

\* _normalize_for_matching(text) is called on a text.
Normalize ==
    /\ call.fn = "none"
    /\ \E text \in NormTexts :
          /\ call' = [fn |-> "_normalize_for_matching", arg |-> text, from |-> NoObject]
          /\ result' = [raised |-> FALSE, value |-> _normalize_for_matching(text)]
    /\ UNCHANGED <<config, turnVars, pipeVars>>

\* A mapping argument: None, or a dict whose "code" is absent, a string or None.
TriviaMappings ==
    {[t |-> "none", code |-> [t |-> "absent", v |-> << >>]]}
      \cup {[t |-> "dict", code |-> c] :
               c \in {[t |-> "absent", v |-> << >>], [t |-> "str", v |-> S_es],
                      [t |-> "null", v |-> << >>]}}

\* "", "Lob(o acute).", "lobo", "lobe"
TriviaAnswers == {<< >>, <<"L","o","b","o_acute",".">>, c_lobo.value, T_lobe}

\* The remote service fails, or answers: no JSON at all, {}, an object cut
\* short, {"is_correct": true}, {"corrected_answer": "x"}.
TriviaReplies ==
    {[kind |-> "raise", text |-> << >>]}
      \cup {[kind |-> "text", text |-> t] :
               t \in {<<"h","i">>, <<"{","}">>, <<"{","\"","a","\"",":">>,
                      <<"{","\"">> \o K_is_correct \o <<"\"",":"," ">> \o S_trueLiteral \o <<"}">>,
                      <<"{","\"">> \o K_corrected_answer \o <<"\"",":","\"","x","\"","}">>}}

\* check_trivia_answer is called.
CheckTrivia ==
    /\ call.fn = "none"
    /\ \E user_answer \in TriviaAnswers, correct_answer \in TriviaAnswers,
          fluent \in TriviaMappings, learning \in TriviaMappings, reply \in TriviaReplies :
          /\ call' = [fn |-> "check_trivia_answer",
                      arg |-> <<user_answer, correct_answer, fluent, learning, reply>>,
                      from |-> NoObject]
          /\ result' = check_trivia_answer(user_answer, correct_answer, fluent, learning, reply)
    /\ UNCHANGED <<config, turnVars, pipeVars>>

\* The call has returned.
Return ==
    /\ call.fn # "none"
    /\ call' = NoCall
    /\ result' = NoValue
    /\ UNCHANGED <<config, turnVars, pipeVars>>

PureNext ==
    \/ ExtractJson
    \/ ExtractSerialized
    \/ MockDetect
    \/ FuzzyDetect
    \/ Normalize
    \/ CheckTrivia
    \/ Return

PureSpec == PureInit /\ [][PureNext]_vars

----------------------------------------------------------------------------
(* fastapi_wispr_pipeline.py: helpers *)

\* The fields of re.split(r'(?<=[.!?])\s+', s): s is cut at every run of
\* whitespace that follows ".", "!" or "?".
RECURSIVE SentenceFields(_)
SentenceFields(s) ==
    LET Cuts == {i \in 2..Len(s) : IsSpace(s[i]) /\ s[i - 1] \in {".", "!", "?"}}
    IN IF Cuts = {} THEN <<s>>
       ELSE LET i == CHOOSE c \in Cuts : \A d \in Cuts : c <= d
            IN <<SubSeq(s, 1, i - 1)>> \o SentenceFields(LStrip(SubSeq(s, i, Len(s))))

simple_split_sentences(text) ==
    LET t == Strip(text)
        fields == SentenceFields(t)
        NotEmpty(f) == f # << >>
    IN IF t = << >> THEN << >>
       ELSE SelectSeq([i \in 1..Len(fields) |-> Strip(fields[i])], NotEmpty)

\* azure_tts_bytes(text, use_mock=True): silence of min(6.0, 0.25 * words)
\* seconds, words = max(1, len(text.split())).
azure_tts_bytes(text) == generate_silent_wav(Min(24, Max(1, WordCount(text))))

\* azure_tts_bytes_real of the pipeline: raises without the speech key or
\* region, and when the request fails or is not answered 200.
pipeline_azure_tts_bytes_real(text, remote) ==
    IF ~speechKey \/ ~speechRegion THEN [raised |-> TRUE, bytes |-> NoAudio]
    ELSE IF remote = "ok" THEN [raised |-> FALSE, bytes |-> AzureAudio]
    ELSE [raised |-> TRUE, bytes |-> NoAudio]

\* save_audio_file(session_id, turn_id, idx, text_lang, wav_bytes) at the
\* clock reading ts: the file written, by directory and name.
save_audio_file(session_id, turn_id, idx, text_lang, wav_bytes, ts) ==
    [dir |-> S_session_ \o Sanitize(session_id),
     filename |-> turn_id \o <<"_">> \o DigitsOf(idx) \o <<"_">> \o text_lang
                    \o <<"_">> \o DigitsOf(ts) \o S_wav,
     bytes |-> wav_bytes]

\* get_audio_file(session_id, filename) on the files audio: 404, or the file.
get_audio_file(session_id, filename, audio) ==
    LET path == <<S_session_ \o Sanitize(session_id), filename>>
    IN IF path \notin DOMAIN audio THEN [status |-> 404, body |-> NoAudio]
       ELSE [status |-> 200, body |-> audio[path]]

----------------------------------------------------------------------------
(* fastapi_wispr_pipeline.py: receive_transcript *)

\* "English sentence "
S_englishSentence == <<"E","n","g","l","i","s","h"," ","s","e","n","t","e","n","c","e"," ">>

\* " for "
S_for == <<" ","f","o","r"," ">>

\* The pairs of the mock branch, from sentence number count on.
RECURSIVE MockPairs(_, _)
MockPairs(sentences, count) ==
    IF sentences = << >> THEN << >>
    ELSE <<[native |-> Strip(S_englishSentence \o DigitsOf(count) \o S_for
                               \o SubSeq(Head(sentences), 1, Min(200, Len(Head(sentences))))),
            learning |-> Head(sentences)]>>
          \o MockPairs(Tail(sentences), count + 1)

\* call_openai_split_and_translate: the remote call raises, or the content
\* it answers does not decode, or it decodes to the value given.
call_openai_split_and_translate(reply) ==
    IF reply.kind = "json" THEN [raised |-> FALSE, value |-> reply.body]
    ELSE [raised |-> TRUE, value |-> << >>]

\* receive_transcript(req); id is what generate_id() gives.
receive_transcript(req, reply, id) ==
    IF Strip(req.text) = << >> THEN [status |-> 400, body |-> << >>]
    ELSE IF PipelineMockMode
         THEN [status |-> 200,
               body |-> [turn_id |-> S_turn_ \o id,
                         user_pairs |-> MockPairs(simple_split_sentences(Strip(req.text)), 1)]]
    ELSE LET pairs == call_openai_split_and_translate(reply)
         IN IF pairs.raised THEN [status |-> 500, body |-> << >>]
            ELSE [status |-> 200,
                  body |-> [turn_id |-> S_turn_ \o id, user_pairs |-> pairs.value]]

----------------------------------------------------------------------------
(* fastapi_wispr_pipeline.py: receive_confirm *)

\* The corrected pairs and the reply pairs of the mock branch.
MockCorrectedPairs ==
    <<[native |-> <<"I"," ","w","o","u","l","d"," ","l","i","k","e"," ","t","o"," ","r","e","s","e","r","v","e"," ","a"," ","t","a","b","l","e",".">>, learning |-> <<"Q","u","i","s","i","e","r","a"," ","r","e","s","e","r","v","a","r"," ","u","n","a"," ","m","e","s","a",".">>],
      [native |-> <<"I","s"," ","8"," ","O","K","?">>, learning |-> <<"inv_q","A"," ","l","a","s"," ","8"," ","e","s","t","a_acute"," ","b","i","e","n","?">>]>>

MockReplyPairs ==
    <<[native |-> <<"Y","e","s",","," ","8"," ","i","s"," ","p","e","r","f","e","c","t",".">>, learning |-> <<"S","i_acute",","," ","a"," ","l","a","s"," ","8"," ","e","s","t","a_acute"," ","p","e","r","f","e","c","t","o",".">>],
      [native |-> <<"H","o","w"," ","m","a","n","y"," ","p","e","o","p","l","e"," ","w","i","l","l"," ","y","o","u"," ","b","e","?">>, learning |-> <<"inv_q","C","u","a_acute","n","t","a","s"," ","p","e","r","s","o","n","a","s"," ","s","e","r","a_acute","n","?">>]>>

\* "Mock: minor wording adjusted for politeness."
S_mockCorrection == <<"M","o","c","k",":"," ","m","i","n","o","r"," ","w","o","r","d","i","n","g"," ","a","d","j","u","s","t","e","d"," ","f","o","r"," ","p","o","l","i","t","e","n","e","s","s",".">>

\* base64.b64encode(wav).decode("ascii")
b64encode(wav) == [base64 |-> wav]

\* attach_audio(pairs): every pair with the silence for its learning text.
attach_audio(pairs) ==
    [i \in 1..Len(pairs) |->
        [native |-> pairs[i].native, learning |-> pairs[i].learning,
         audio_base64 |-> b64encode(azure_tts_bytes(pairs[i].learning))]]

\* call_openai_confirm_from_native: the remote call raises, or the content
\* it answers does not decode, or it decodes to the object given.
call_openai_confirm_from_native(reply) ==
    IF reply.kind = "json" THEN [raised |-> FALSE, value |-> reply.body]
    ELSE [raised |-> TRUE, value |-> << >>]

\* One of the two loops of the real branch, from index idx (0-based) on: the
\* pairs with their audio, and the files written before a synthesis raised.
RECURSIVE ConfirmLoop(_, _, _, _, _, _)
ConfirmLoop(pairs, idx, session_id, code, ttsReplies, ts) ==
    IF idx >= Len(pairs) THEN [raised |-> FALSE, out |-> << >>, writes |-> << >>]
    ELSE LET p == pairs[idx + 1]
             text_to_speak == GetOr(p, "learning", GetDefault(p, "native", << >>))
             wav == pipeline_azure_tts_bytes_real(text_to_speak, ttsReplies[idx + 1])
             safe_session == IF session_id = << >> THEN S_session_ \o DigitsOf(ts)
                             ELSE session_id
             saved == save_audio_file(safe_session, S_turn_ \o DigitsOf(ts), idx, code,
                                      wav.bytes, ts)
             entry == [audio_base64 |-> b64encode(wav.bytes),
                       audio_file |-> [session |-> safe_session, filename |-> saved.filename],
                       audio_filename |-> saved.filename] @@ p
             rest == ConfirmLoop(pairs, idx + 1, session_id, code, ttsReplies, ts)
         IN IF wav.raised THEN [raised |-> TRUE, out |-> << >>, writes |-> << >>]
            ELSE [raised |-> rest.raised, out |-> <<entry>> \o rest.out,
                  writes |-> <<saved>> \o rest.writes]

\* The real branch once the first loop is done: the second loop and the
\* response.  A loop that raised gives 500; the files written stay.
ConfirmReplies(first, parsed, req, code, ttsReplies, id, ts) ==
    LET reply == GetDefault(parsed, "reply_pairs", << >>)
        second == ConfirmLoop(reply, 0, req.session_id, code, ttsReplies, ts)
    IN IF first.raised THEN [resp |-> [status |-> 500, body |-> << >>], writes |-> first.writes]
       ELSE IF second.raised
            THEN [resp |-> [status |-> 500, body |-> << >>],
                  writes |-> first.writes \o second.writes]
       ELSE [resp |-> [status |-> 200,
                       body |-> [turn_id |-> S_turn_ \o id,
                                 corrected_pairs |-> first.out,
                                 reply_pairs |-> second.out,
                                 correction_explanation |->
                                    GetDefault(parsed, "correction_explanation", << >>)]],
             writes |-> first.writes \o second.writes]

\* receive_confirm(req): reply is what the remote LLM does, ttsCorrected and
\* ttsReply what the speech service does for the pairs of the two loops, id
\* what generate_id() gives, ts the clock.
receive_confirm(req, reply, ttsCorrected, ttsReply, id, ts) ==
    LET code == IF req.learning = << >> THEN S_es ELSE req.learning[1]
    IN IF PipelineMockMode
       THEN [resp |-> [status |-> 200,
                       body |-> [turn_id |-> S_turn_ \o id,
                                 corrected_pairs |-> attach_audio(MockCorrectedPairs),
                                 reply_pairs |-> attach_audio(MockReplyPairs),
                                 correction_explanation |-> S_mockCorrection]],
             writes |-> << >>]
       ELSE LET parsed == call_openai_confirm_from_native(reply)
            IN IF parsed.raised
               THEN [resp |-> [status |-> 500, body |-> << >>], writes |-> << >>]
               ELSE ConfirmReplies(
                       ConfirmLoop(GetDefault(parsed.value, "corrected_pairs", << >>), 0,
                                   req.session_id, code, ttsCorrected, ts),
                       parsed.value, req, code, ttsReply, id, ts)

----------------------------------------------------------------------------
(* fastapi_wispr_pipeline.py: save_conversation, load_conversation *)

\* The mapping d without the key k.
Without(d, k) == [x \in (DOMAIN d) \ {k} |-> d[x]]

\* sanitize(msgs), one message: a message of kind "pair" gets a copy of its
\* pair without audio_base64, one of kind "translation_check" copies of its
\* userPairs without audio_base64, any other message is kept as it is.  The
\* value under "pair" is given with its type: dict(...) raises when it is
\* not a mapping.
SanitizeMessage(m) ==
    LET kind == GetDefault(m, "kind", "")
        pair == GetDefault(m, "pair", [t |-> "obj", v |-> << >>])
        userPairs == GetOr(m, "userPairs", << >>)
    IN IF kind = "pair"
       THEN IF pair.t # "obj" THEN [raised |-> TRUE, value |-> << >>]
            ELSE [raised |-> FALSE,
                  value |-> ("pair" :> [t |-> "obj", v |-> Without(pair.v, "audio_base64")]) @@ m]
       ELSE IF kind = "translation_check"
            THEN [raised |-> FALSE,
                  value |-> ("userPairs" :> [i \in 1..Len(userPairs) |->
                                               Without(userPairs[i], "audio_base64")]) @@ m]
       ELSE [raised |-> FALSE, value |-> m]

sanitize(msgs) ==
    IF \E i \in 1..Len(msgs) : SanitizeMessage(msgs[i]).raised
    THEN [raised |-> TRUE, value |-> << >>]
    ELSE [raised |-> FALSE, value |-> [i \in 1..Len(msgs) |-> SanitizeMessage(msgs[i]).value]]

S_dotJson == <<".","j","s","o","n">>

\* CONV_ROOT / f"session_{safe_session}.json"
ConvPath(session_id) == S_session_ \o Sanitize(session_id) \o S_dotJson

\* A file opened for writing and not written yet, and a file two writers
\* have written over each other.
Truncated == [kind |-> "truncated", data |-> << >>]

Mixed == [kind |-> "mixed", data |-> << >>]

\* What _write dumps, at the clock reading ts.
ConversationData(session_id, payload, messages, ts) ==
    [session_id |-> session_id,
     messages |-> messages,
     fluent_language |-> GetDefault(payload, "fluent_language", << >>),
     learning_language |-> GetDefault(payload, "learning_language", << >>),
     saved_at |-> ts]

\* save_conversation(session_id, payload): the response, and whether _write
\* is scheduled.
save_conversation(session_id, payload) ==
    IF PipelineMockMode THEN [status |-> 204, scheduled |-> FALSE]
    ELSE IF "messages" \notin DOMAIN payload THEN [status |-> 400, scheduled |-> FALSE]
    ELSE [status |-> 200, scheduled |-> TRUE]

\* load_conversation(session_id) on the files of CONV_ROOT: json.load raises
\* on a file that does not hold one JSON value, which the framework answers 500.
load_conversation(session_id, files) ==
    IF PipelineMockMode THEN [status |-> 404, body |-> << >>]
    ELSE IF ConvPath(session_id) \notin DOMAIN files THEN [status |-> 404, body |-> << >>]
    ELSE IF files[ConvPath(session_id)].kind # "json" THEN [status |-> 500, body |-> << >>]
    ELSE [status |-> 200, body |-> files[ConvPath(session_id)].data]

----------------------------------------------------------------------------
(* The pipeline service *)

\* The most background writes scheduled and not finished.
MaxTasks == 2

\* "s.1" and "s_1", which sanitize to the same name
PipeSessionIds == {<<"s",".","1">>, <<"s","_","1">>}

\* "", " \t", "Hola. Adios!  Si"
PipeTexts ==
    {<< >>, T_blank,
     <<"H","o","l","a","."," ","A","d","i","o","s","!"," ","\t","S","i">>}

S_AAAA == <<"A","A","A","A">>

S_hi == <<"h","i">>

\* A pair message and a translation_check message with audio in the places
\* sanitize looks at.
M_clean ==
    <<[kind |-> "pair", pair |-> [t |-> "obj", v |-> [native |-> S_hi, audio_base64 |-> S_AAAA]]],
      [kind |-> "translation_check",
       userPairs |-> <<[native |-> S_hi, audio_base64 |-> S_AAAA]>>]>>

\* A message of another kind with audio at its top level.
M_reply == <<[kind |-> "reply", text |-> S_hi, audio_base64 |-> S_AAAA]>>

Payloads ==
    {[fluent_language |-> S_en]}
      \cup {[messages |-> m, fluent_language |-> S_en] :
               m \in {M_clean, M_reply}}

\* What generate_id() may give.
GeneratedIds == {<<"1">>, <<"2">>}

PipeFailures == {"network_error", "invalid_json"}

\* The remote LLM answers the transcript request with two pairs.
TranscriptReplies ==
    [kind : PipeFailures, body : {<< >>}]
      \cup {[kind |-> "json", body |-> <<[native |-> S_hi, learning |-> <<"H","o","l","a",".">>]>>]}

\* The remote LLM answers the confirm request with an empty object, or with
\* one corrected pair and one reply pair, the second without learning text.
ConfirmBodies ==
    {<< >>,
     [corrected_pairs |-> <<[native |-> S_hi, learning |-> <<"H","o","l","a",".">>]>>,
      reply_pairs |-> <<[native |-> S_hi, learning |-> << >>]>>,
      correction_explanation |-> S_hi]}

ConfirmReplySet == [kind : PipeFailures, body : {<< >>}] \cup [kind : {"json"}, body : ConfirmBodies]

\* The answers of the speech service to the pairs under key of the body.
PipeTtsReplies(reply, key) ==
    LET n == IF reply.kind = "json" THEN Len(GetDefault(reply.body, key, << >>)) ELSE 0
    IN [1..n -> IF speechKey /\ speechRegion THEN {"ok", "bad_status"} ELSE {"not_asked"}]

\* The files of ws written one after the other.
RECURSIVE WriteAudio(_, _)
WriteAudio(audio, ws) ==
    IF ws = << >> THEN audio
    ELSE WriteAudio((<<ws[1].dir, ws[1].filename>> :> ws[1].bytes) @@ audio, Tail(ws))

RECURSIVE CacheAudio(_, _)
CacheAudio(cache, ws) ==
    IF ws = << >> THEN cache
    ELSE CacheAudio((ws[1].filename :> ws[1].bytes) @@ cache, Tail(ws))

\* The service has loaded: in mock mode without an OpenAI key, or with mock
\* mode off and the key.  The speech region is set, the speech key may be.
PipeInit ==
    /\ \/ mockEnv = <<S_1>> /\ openaiKey = FALSE
       \/ mockEnv = <<S_0>> /\ openaiKey = TRUE
    /\ PipelineStarts
    /\ azureLlm = FALSE
    /\ speechKey \in BOOLEAN
    /\ speechRegion = TRUE
    /\ lexicalPaths = FALSE
    /\ request = NoRequest
    /\ response = NoResponse
    /\ llmCalls = 0
    /\ llmReply = NotAsked
    /\ llmOut = NoResult
    /\ ttsLog = << >>
    /\ writes = << >>
    /\ call = NoCall
    /\ result = NoValue
    /\ PipeReset

\* POST /api/transcript
Transcript ==
    /\ \E text \in PipeTexts, id \in GeneratedIds :
       \E reply \in (IF PipelineMockMode THEN {NotAsked} ELSE TranscriptReplies) :
          /\ pipeReq' = [op |-> "transcript", text |-> text]
          /\ pipeResp' = receive_transcript([text |-> text], reply, id)
    /\ UNCHANGED <<config, turnVars, call, result, convFiles, tasks, acked, audioDir, audioCache>>

\* The handler of /api/confirm has run: its response and its files.
Confirmed(req, run) ==
    /\ pipeReq' = req
    /\ pipeResp' = run.resp
    /\ audioDir' = WriteAudio(audioDir, run.writes)
    /\ audioCache' = CacheAudio(audioCache, run.writes)

\* POST /api/confirm
Confirm ==
    /\ \E session_id \in {<< >>} \cup PipeSessionIds,
          learning \in {<< >>}, id \in GeneratedIds, ts \in 1..MaxClock :
       \E reply \in (IF PipelineMockMode THEN {NotAsked} ELSE ConfirmReplySet) :
       \E ttsCorrected \in PipeTtsReplies(reply, "corrected_pairs"),
          ttsReply \in PipeTtsReplies(reply, "reply_pairs") :
          Confirmed([op |-> "confirm", session_id |-> session_id, learning |-> learning],
                    receive_confirm([session_id |-> session_id, learning |-> learning],
                                    reply, ttsCorrected, ttsReply, id, ts))
    /\ UNCHANGED <<config, turnVars, call, result, convFiles, tasks, acked>>

\* POST /api/conversations/{session_id}: _write is added to the background
\* tasks of the response.
SaveConversation ==
    /\ Len(tasks) < MaxTasks
    /\ \E session_id \in PipeSessionIds, payload \in Payloads :
          LET run == save_conversation(session_id, payload)
          IN /\ pipeReq' = [op |-> "save", session_id |-> session_id, payload |-> payload]
             /\ pipeResp' = [status |-> run.status, body |-> << >>]
             /\ tasks' = IF run.scheduled
                         THEN Append(tasks, [session_id |-> session_id, payload |-> payload,
                                             opened |-> FALSE])
                         ELSE tasks
             /\ acked' = IF run.status = 200
                         THEN (session_id :> payload.messages) @@ acked
                         ELSE acked
    /\ UNCHANGED <<config, turnVars, call, result, convFiles, audioDir, audioCache>>

\* _write in a worker thread: open(path, "w") truncates the file.
WriteOpen ==
    /\ \E k \in 1..Len(tasks) :
          /\ ~tasks[k].opened
          /\ convFiles' = (ConvPath(tasks[k].session_id) :> Truncated) @@ convFiles
          /\ tasks' = [tasks EXCEPT ![k].opened = TRUE]
    /\ UNCHANGED <<config, turnVars, call, result, pipeReq, pipeResp, acked, audioDir, audioCache>>

\* The sequence without its k-th element.
RemoveAt(seq, k) == SubSeq(seq, 1, k - 1) \o SubSeq(seq, k + 1, Len(seq))

\* _write in a worker thread: the data is dumped and the file closed.  When
\* sanitize raises nothing is written and the error is logged.  When another
\* writer has filled the file since this one opened it, the file holds this
\* data, or this data followed by the end of the longer other data.
WriteClose ==
    /\ \E k \in 1..Len(tasks), ts \in 1..MaxClock :
          LET t == tasks[k]
              path == ConvPath(t.session_id)
              clean == sanitize(t.payload.messages)
              data == [kind |-> "json",
                       data |-> ConversationData(t.session_id, t.payload, clean.value, ts)]
          IN /\ t.opened
             /\ tasks' = RemoveAt(tasks, k)
             /\ IF clean.raised THEN convFiles' = convFiles
                ELSE IF convFiles[path].kind = "truncated"
                     THEN convFiles' = (path :> data) @@ convFiles
                ELSE \E written \in {data, Mixed} : convFiles' = (path :> written) @@ convFiles
    /\ UNCHANGED <<config, turnVars, call, result, pipeReq, pipeResp, acked, audioDir, audioCache>>

\* GET /api/conversations/{session_id}
LoadConversation ==
    /\ \E session_id \in PipeSessionIds :
          /\ pipeReq' = [op |-> "load", session_id |-> session_id]
          /\ pipeResp' = load_conversation(session_id, convFiles)
    /\ UNCHANGED <<config, turnVars, call, result, convFiles, tasks, acked, audioDir, audioCache>>

PipeNext ==
    \/ Transcript
    \/ Confirm
    \/ SaveConversation
    \/ WriteOpen
    \/ WriteClose
    \/ LoadConversation

PipeSpec == PipeInit /\ [][PipeNext]_vars

----------------------------------------------------------------------------
(* Properties of the turn endpoint *)

\* The transcript api_turn works on, and the learning code it passes on.
TurnTranscript == Strip(request.transcript)

TurnLearningCode == IF request.learning = << >> THEN S_es ELSE request.learning[1]

\* The transcript is empty or holds whitespace only.
BlankTranscript == \A i \in 1..Len(request.transcript) : IsSpace(request.transcript[i])

TurnHandled == request.kind = "turn"

RemoteTtsCalls == {i \in 1..Len(ttsLog) : ttsLog[i].result.called}

C2_MockModeNoNetwork ==
    (TurnHandled /\ mockEnv = <<S_1>>) => (llmCalls = 0 /\ RemoteTtsCalls = {})

C2_Witness ==
    /\ TurnHandled
    /\ mockEnv = <<S_1>>
    /\ openaiKey /\ azureLlm /\ speechKey /\ speechRegion
    /\ response.status = 200
    /\ Len(ttsLog) = 2

\* C9: an empty or whitespace-only transcript is answered with 400 and no
\* turn result; no LLM call, no TTS call and no file write is made for it.
C9_BlankTranscriptRejected ==
    (TurnHandled /\ BlankTranscript)
        => /\ response.status = 400
           /\ response.turn_id = << >>
           /\ response.audio_files = << >>
           /\ llmCalls = 0
           /\ ttsLog = << >>
           /\ writes = << >>

C9_Witness ==
    /\ TurnHandled
    /\ request.transcript = T_blank
    /\ response.status = 400
    /\ openaiKey /\ mockEnv = <<S_0>>

\* C10: tts_bytes_for_chunk never raises and always returns audio; with mock
\* mode off it returns generated silence whenever the credentials are absent
\* or the remote call fails (exception, timeout, status other than 200).
C10_TtsNeverRaises ==
    \A i \in 1..Len(ttsLog) :
        LET made == ttsLog[i]
        IN /\ ~made.result.raised
           /\ made.result.bytes.kind \in {"silence", "test_audio", "azure"}
           /\ (~TtsMockMode /\ (~speechKey \/ ~speechRegion \/ made.reply # "ok"))
                 => /\ made.result.bytes.kind = "silence"
                    /\ made.result.bytes.frames > 0

C10_Witness ==
    \E i \in 1..Len(ttsLog) :
        /\ ttsLog[i].reply = "timeout"
        /\ ttsLog[i].result.called
        /\ ttsLog[i].result.bytes.kind = "silence"

\* C3 (as claimed): with MOCK_MODE unset, mock mode is on and a turn calls
\* neither the remote LLM nor the remote TTS service.
C3_UnsetMockModeNoNetwork ==
    (TurnHandled /\ mockEnv = << >>)
        => (GameMockMode /\ llmCalls = 0 /\ RemoteTtsCalls = {})

\* The detector of the claim C4: a card with a match text is used when its
\* normalized text is a substring of the normalized transcript or, otherwise,
\* when its fuzzy score reaches the threshold.  A card whose normalized text
\* is empty is left out, as the code leaves it out.
detect_used_cards(transcript, cards, hasFuzz) ==
    LET Used(c) ==
            LET normalized_val == _normalize_for_matching(CardText(c))
            IN /\ normalized_val # << >>
               /\ \/ IsSubstring(normalized_val, _normalize_for_matching(transcript))
                  \/ FuzzyHit(Lower(CardText(c)), Lower(transcript), hasFuzz)
    IN {cards[i].id : i \in {j \in 1..Len(cards) : Used(cards[j])}}

\* The positions of the cards whose non-empty normalized text is a substring
\* of the normalized transcript.
SubstringMatches ==
    {j \in 1..Len(request.active_cards) :
        LET text == _normalize_for_matching(CardText(request.active_cards[j]))
        IN text # << >> /\ IsSubstring(text, _normalize_for_matching(TurnTranscript))}

CorrectedBeforeNative(entries) ==
    \A i, j \in 1..Len(entries) :
        (entries[i].purpose = "corrected_sentence" /\ entries[j].purpose = "native_translation")
            => i < j

\* C5 (as claimed): in every turn result with two or more audio chunks the
\* corrected_sentence chunk comes before every native_translation chunk, and
\* audio_files keeps that order.
C5_CorrectedBeforeNative ==
    (TurnHandled /\ response.status = 200)
        => /\ ("audio_chunks" \in DOMAIN llmOut.value /\ Len(llmOut.value.audio_chunks) >= 2)
                 => CorrectedBeforeNative(llmOut.value.audio_chunks)
           /\ Len(response.audio_files) >= 2 => CorrectedBeforeNative(response.audio_files)

\* C6 (as claimed): used_card_ids is a subset of the ids of active_cards.
C6_UsedCardsAreActive ==
    (TurnHandled /\ response.status = 200)
        => Range(response.used_card_ids) \subseteq CardIds(request.active_cards)

AnswerWithoutUsedCardIds ==
    /\ TurnHandled
    /\ response.status = 200
    /\ llmReply.kind = "json"
    /\ "used_card_ids" \notin DOMAIN llmReply.body

C8_WritesStayInSessionFolder ==
    \A i \in 1..Len(writes) :
        ~writes[i].raised
            => /\ Range(writes[i].url.session) \subseteq SafeChars
               /\ writes[i].folder = SessionFolder(writes[i].url.session)
               /\ Parent(writes[i].path) = writes[i].folder

----------------------------------------------------------------------------
(* Properties of the silence fallback *)

\* The synthesizer calls of the turn that fell back to silence.
SilenceCalls == {i \in 1..Len(ttsLog) : ttsLog[i].result.bytes.kind = "silence"}

\* C11 (as claimed): every fallback silence lasts min(4.0, 0.25 * word_count)
\* seconds, the empty text included (durations in quarters of a second).
C11_SilenceQuarterPerWord ==
    \A i \in SilenceCalls :
        ttsLog[i].result.bytes.quarters = Min(16, WordCount(ttsLog[i].text))

\* C11 (amended): every fallback silence lasts min(4.0, 0.25 * max(1,
\* word_count)) seconds: a text without words gets a quarter second, a text
\* of more than sixteen words gets four seconds; the file written for the
\* chunk holds that silence at 22050 frames a second.
C11_SilenceQuarterPerWordAtLeastOne ==
    \A i \in SilenceCalls :
        LET quarters == Min(16, Max(1, WordCount(ttsLog[i].text)))
        IN /\ ttsLog[i].result.bytes.quarters = quarters
           /\ ttsLog[i].result.bytes.frames = (quarters * SampleRate) \div 4
           /\ writes[i].bytes = ttsLog[i].result.bytes

C11_Witness ==
    /\ Len(ttsLog) = 2
    /\ SilenceCalls = {1, 2}
    /\ ttsLog[1].text = << >> /\ ttsLog[1].result.bytes.quarters = 1
    /\ WordCount(ttsLog[2].text) = 17 /\ ttsLog[2].result.bytes.quarters = 16
    /\ ttsLog[2].reply = "bad_status"

----------------------------------------------------------------------------
(* Properties of _extract_json *)

\* C12 (as claimed): _extract_json raises whenever the text without fences
\* has no "{", has no "}", has its last "}" before its first "{", or holds
\* between the two a text that is not valid JSON (RFC 8259).
C12_ExtractRejectsInvalidJson ==
    (call.fn = "_extract_json")
        => LET text2 == Strip(RemoveFences(call.arg))
               start == Find(text2, "{")
               end == RFind(text2, "}")
           IN (\/ start = -1
               \/ end = -1
               \/ end < start
               \/ Decode(SubSeq(text2, start + 1, end + 1), FALSE).raised)
                  => result.raised

\* C13 (as claimed): for every JSON object O, _extract_json of
\* "noise " + serialize(O) + " noise" returns an object equal to O.
C13_ExtractRoundTrips ==
    (call.fn = "_extract_json" /\ call.from.t = "obj")
        => /\ ~result.raised
           /\ result.value = AsDecoded(call.from).v

----------------------------------------------------------------------------
(* Properties of the parsed LLM output *)

\* The remote LLM answered with a JSON object and the turn was answered.
ParsedAnswer == TurnHandled /\ response.status = 200 /\ llmReply.kind = "json"

\* C14: after a successful parse every one of the seven expected keys is in
\* the result of call_llm_for_turn: a key the object had keeps its parsed
\* value, a missing text key is the empty string and a missing list key the
\* empty sequence; no other key is added.
C14_MissingKeysDefaulted ==
    ParsedAnswer
        => /\ DOMAIN llmOut.value = (DOMAIN llmReply.body) \cup TextKeys \cup ListKeys
           /\ \A k \in DOMAIN llmOut.value :
                 llmOut.value[k] = IF k \in DOMAIN llmReply.body THEN llmReply.body[k] ELSE << >>

C14_Witness ==
    /\ ParsedAnswer
    /\ llmReply.body = B_pathLang
    /\ llmOut.value["used_card_ids"] = << >>
    /\ llmOut.value["native_translation"] = << >>
    /\ llmOut.value["corrected_sentence"] = S_elLobo

\* The turn was answered and its chunks do not come from the remote LLM: the
\* mock result was used, or the parsed object had no audio_chunks or an empty
\* list of them.
ChunksNotFromLlm ==
    /\ TurnHandled
    /\ response.status = 200
    /\ ParsedAnswer => GetDefault(llmReply.body, "audio_chunks", << >>) = << >>

\* C15: when audio_chunks is absent or empty after extraction, the turn
\* synthesizes exactly two chunks, in this order: the corrected sentence with
\* the learning locale (es* gives es-MX, id* gives id-ID, else en-US) and
\* purpose corrected_sentence, then the native translation with en-US and
\* purpose native_translation.
C15_DefaultChunks ==
    ChunksNotFromLlm
        => /\ Len(ttsLog) = 2
           /\ ttsLog[1].text = response.corrected_sentence
           /\ ttsLog[1].lang = (IF StartsWith(TurnLearningCode, S_es) THEN S_esMX
                                ELSE IF StartsWith(TurnLearningCode, S_id) THEN S_idID
                                ELSE S_enUS)
           /\ ttsLog[2].text = response.native_translation
           /\ ttsLog[2].lang = S_enUS
           /\ Len(response.audio_files) = 2
           /\ response.audio_files[1].purpose = "corrected_sentence"
           /\ response.audio_files[1].lang = ttsLog[1].lang
           /\ response.audio_files[2].purpose = "native_translation"
           /\ response.audio_files[2].lang = S_enUS

\* An object without audio_chunks, an Indonesian learner.
C15_Witness ==
    /\ ParsedAnswer
    /\ "audio_chunks" \notin DOMAIN llmReply.body
    /\ TurnLearningCode = S_id
    /\ Len(ttsLog) = 2
    /\ ttsLog[1].lang = S_idID
    /\ ttsLog[1].text = TurnTranscript

----------------------------------------------------------------------------
(* Properties of the mock result *)

\* Mock mode is on for llm_call.py, or no LLM credential is configured.
NoLlmClient == GetEnv(mockEnv, S_1) = S_1 \/ (~azureLlm /\ ~openaiKey)

\* C16: without an LLM credential or in mock mode, call_llm_for_turn makes no
\* remote call and returns a result fixed by its inputs: corrected_sentence
\* is the transcript, native_translation "(mock) " and the transcript,
\* asr_fixes empty, audio_chunks the two default chunks; the clock, the
\* session and the rest of the configuration have no part in it.
C16_MockResultDeterministic ==
    (TurnHandled /\ response.status = 200 /\ NoLlmClient)
        => /\ llmCalls = 0
           /\ ~llmOut.raised
           /\ llmOut.value =
                 [corrected_sentence |-> TurnTranscript,
                  native_translation |-> <<"(","m","o","c","k",")"," ">> \o TurnTranscript,
                  used_card_ids |-> MockUsedCards(TurnTranscript, request.active_cards),
                  asr_fixes |-> << >>,
                  brief_explanation_native |-> S_mockExplanation,
                  notes |-> << >>,
                  audio_chunks |->
                     <<[text |-> TurnTranscript, lang |-> LearningLocale(TurnLearningCode),
                        purpose |-> "corrected_sentence"],
                       [text |-> <<"(","m","o","c","k",")"," ">> \o TurnTranscript,
                        lang |-> S_enUS, purpose |-> "native_translation"]>>]

\* Mock mode off and no credential: the mock result all the same.
C16_Witness ==
    /\ TurnHandled /\ response.status = 200
    /\ mockEnv = <<S_0>> /\ ~azureLlm /\ ~openaiKey
    /\ request.transcript = T_lobo
    /\ llmCalls = 0
    /\ llmOut.value.used_card_ids = <<"c_flor", "c_lobo">>

----------------------------------------------------------------------------
(* Properties of the card detectors and of the normalizer *)

\* The card and the transcript of a detector call, and the ids it gave.
DetectorCall == call.fn \in {"_mock_response", "fuzzy_card_detect"}

DetectedIds ==
    IF call.fn = "_mock_response" THEN Range(result.value.used_card_ids) ELSE result.value

C18_NormalizerIdempotent ==
    call.fn = "_normalize_for_matching"
        => /\ _normalize_for_matching(result.value) = result.value
           /\ call.arg = << >> => result.value = << >>

\* A text with an accented capital, a combining mark, punctuation and
\* whitespace at an end, which the normalizer changes into a text that is
\* not empty.
C18_Witness ==
    /\ call.fn = "_normalize_for_matching"
    /\ call.arg = <<"O_acute", ".", "N_tilde", "\t">>
    /\ result.value = <<"o", "n">>

\* C19: check_trivia_answer never raises; and without a client, or when the
\* remote call fails or no JSON object can be extracted from its answer, it
\* returns is_correct equal to the equality of the two normalized answers and
\* corrected_answer equal to correct_answer.
C19_TriviaNeverRaises ==
    call.fn = "check_trivia_answer"
        => /\ ~result.raised
           /\ (\/ ~_init_client
               \/ call.arg[5].kind = "raise"
               \/ extract_json(call.arg[5].text).raised)
                 => /\ result.value[K_is_correct]
                         = JsonBool(_normalize_for_matching(call.arg[1])
                                      = _normalize_for_matching(call.arg[2]))
                    /\ result.value[K_corrected_answer] = JsonStr(call.arg[2])

----------------------------------------------------------------------------
(* Properties of the configuration *)

\* C20: with mock mode off under every reading of MOCK_MODE and no LLM
\* credential set, no service starts and no request is handled: the pipeline
\* module does not load, and the turn endpoint answers no request.
C20_MissingCredentialAbortsStartup ==
    (~LlmMockMode /\ ~GameMockMode /\ ~PipelineMockMode /\ ~openaiKey /\ ~azureLlm)
        => (~PipelineStarts /\ request.kind = "none")

----------------------------------------------------------------------------
(* Properties of the audio files of a turn *)

\* The files of the entries of audio_files with the given purpose.
FilesWithPurpose(purpose) ==
    {response.audio_files[i].audio_file :
        i \in {j \in 1..Len(response.audio_files) :
                  response.audio_files[j].purpose = purpose}}

\* C25: in a response whose audio_files holds a corrected_sentence entry and
\* a native_translation entry, audio_file_learning is the file of a
\* corrected_sentence entry and audio_file_en the file of a
\* native_translation entry, whatever the learning code.
C25_AudioFilesFollowPurpose ==
    (/\ TurnHandled /\ response.status = 200
     /\ FilesWithPurpose("corrected_sentence") # {}
     /\ FilesWithPurpose("native_translation") # {})
        => /\ response.audio_file_learning \in FilesWithPurpose("corrected_sentence")
           /\ response.audio_file_en \in FilesWithPurpose("native_translation")

----------------------------------------------------------------------------
(* Properties of the pipeline service *)

\* C21: a transcript request with a text that is not blank, and every confirm
\* request, is answered 200, whatever the remote LLM and the speech service
\* do.
C21_PipelineNeverAnswersError ==
    /\ (pipeReq.op = "transcript" /\ Strip(pipeReq.text) # << >>) => pipeResp.status = 200
    /\ pipeReq.op = "confirm" => pipeResp.status = 200

\* A message without any audio_base64 field: at its top level, in its pair
\* and in its userPairs; every other field as it was.
WithoutAudio(m) ==
    LET top == Without(m, "audio_base64")
    IN [k \in DOMAIN top |->
          IF k = "pair" /\ top[k].t = "obj"
          THEN [t |-> "obj", v |-> Without(top[k].v, "audio_base64")]
          ELSE IF k = "userPairs"
               THEN [i \in 1..Len(top[k]) |-> Without(top[k][i], "audio_base64")]
          ELSE top[k]]

\* C22: whenever a background write has put a conversation on disk, the
\* messages of the file are the messages of the save, each without any
\* audio_base64 field and with its other fields unchanged.
C22_PersistedWithoutAudio ==
    [][\A k \in 1..Len(tasks) :
          LET path == ConvPath(tasks[k].session_id)
              msgs == tasks[k].payload.messages
          IN (/\ tasks[k].opened
              /\ tasks' = RemoveAt(tasks, k)
              /\ convFiles'[path].kind = "json")
                => convFiles'[path].data.messages
                      = [i \in 1..Len(msgs) |-> WithoutAudio(msgs[i])]]_vars

\* C23: with mock mode off, a load of a session for which a save has been
\* answered 200 is answered 200 with the messages of the latest such save.
C23_LoadReturnsLatestSave ==
    (pipeReq.op = "load" /\ ~PipelineMockMode /\ pipeReq.session_id \in DOMAIN acked)
        => /\ pipeResp.status = 200
           /\ pipeResp.body.messages = sanitize(acked[pipeReq.session_id]).value

\* C24: a background write for session A changes what load_conversation
\* returns for no other session id B, and a confirm request of session A
\* changes what the audio file endpoint returns for no other session id B.
C24_SessionsIsolated ==
    [][/\ \A k \in 1..Len(tasks) :
             (\/ tasks' = RemoveAt(tasks, k)
              \/ (~tasks[k].opened /\ tasks' = [tasks EXCEPT ![k].opened = TRUE]))
                => \A B \in PipeSessionIds \ {tasks[k].session_id} :
                      load_conversation(B, convFiles') = load_conversation(B, convFiles)
       /\ (pipeReq'.op = "confirm" /\ audioDir' # audioDir)
             => \A B \in PipeSessionIds \ {pipeReq'.session_id} :
                \A path \in DOMAIN audioDir' :
                   get_audio_file(B, path[2], audioDir') = get_audio_file(B, path[2], audioDir)]_vars

====
